---- MODULE Spec2Model ----
(***************************************************************************)
(* Model of Mcp2210::spi_transfer_to_end (src/src/lib.rs:168-197): the     *)
(* transfer orchestrator that moves a byte buffer through the MCP2210 in   *)
(* chunks of at most 60 bytes.  One action is one iteration of the call:   *)
(* one spi_transfer exchange with the chip and the handling of its result. *)
(* The transport's answer to every exchange is chosen nondeterministically.*)
(***************************************************************************)
EXTENDS Integers, Sequences, FiniteSets, TLC

\* ------------------------------------------------------------------ bounds
\* Longest input buffer tried.
MaxLen == 150
\* Exchanges after which the capped specification stops issuing exchanges.
MaxExchanges == 5
\* Exchanges the uncapped specification records in the log; the call goes on
\* past them, unrecorded.
MaxLogged == 3
\* Longest path given to open_path, in bytes.
MaxPathLen == 3
\* command_response calls traced on one opened device.
MaxCalls == 2

\* -------------------------------------------------------- program constants
\* min(data.len(), 60): the SPI payload ceiling of one packet.
ChunkMax == 60
\* const BUFFER_SIZE: usize = 64
BUFFER_SIZE == 64

Min(a, b) == IF a <= b THEN a ELSE b

\* Input lengths tried: empty, one byte, around one and two chunks, MaxLen.
DataLens == {0, 1, ChunkMax, ChunkMax + 1, 2 * ChunkMax, MaxLen}

\* The input of length n: byte i is i (mod 256), so that every position of
\* the inputs tried is told apart from its neighbours.
InputOf(n) == [i \in 1..n |-> i % 256]

\* Contents of the caller's accumulator at call entry.
BufInits == {<<>>, <<170, 85>>}

\* ------------------------------------------------------------- error values
\* Mcp2210Error, the variants spi_transfer can produce plus TransferStatus.
ErrHid == [kind |-> "Hid"]
ErrCommandCode == [kind |-> "CommandCode"]
ErrInvalidResponse == [kind |-> "InvalidResponse"]
ErrUnknownErrorCode(b) == [kind |-> "UnknownErrorCode", code |-> b]
ErrPayloadSize(n) == [kind |-> "PayloadSize", size |-> n]
ErrTransferStatus(s) == [kind |-> "TransferStatus", status |-> s]
ErrBusy == [kind |-> "Busy"]
ErrChip(k) == [kind |-> k]
ErrNonUtf8Path(p) == [kind |-> "NonUtf8Path", path |-> p]
\* NulError: the position of the first nul byte and the bytes given.
ErrNulCharInPath(pos, bytes) == [kind |-> "NulCharInPath", pos |-> pos, bytes |-> bytes]

\* The call's return value: none yet, Ok(()) or Err(e).
NotReturned == [tag |-> "none"]
RetOk == [tag |-> "Ok"]
RetErr(e) == [tag |-> "Err", err |-> e]

\* SpiTransferStatus.
Statuses == {"Started", "InProgress", "Finished"}

\* --------------------------------------------------------------- transport
\* Error bytes the chip may put in byte 1 of a response (0 = no error).
ErrBytes == {0, 247, 248, 249, 250, 251, 252, 253, 1}

\* Chip error-code translation of a non-zero error byte.
ChipError(b) ==
    CASE b = 247 -> ErrChip("Unavailable")
      [] b = 248 -> ErrBusy
      [] b = 249 -> ErrChip("UnknownCommandCode")
      [] b = 250 -> ErrChip("EepromWrite")
      [] b = 251 -> ErrChip("AccessDenied")
      [] b = 252 -> ErrChip("AccessRejected")
      [] b = 253 -> ErrChip("AccessDeniedRetry")
      [] OTHER -> ErrUnknownErrorCode(b)

\* The rx bytes of the k-th answered (not failed) exchange of a call when the
\* chip returns n bytes: what the chip returns follows the progress of the
\* transfer, so that the answers of different exchanges are told apart.
RxData(k, n) == [j \in 1..n |-> (k * 37 + j) % 256]

\* Received-data lengths the chip may report for an exchange that carried
\* `sent` bytes when the previously accepted chunk had `prev` bytes.
RxLens(sent, prev) == {0, sent, prev}

\* Raw answers of the transport to one exchange.
Responses(sent, prev) ==
    {[hid |-> FALSE, echo |-> TRUE, err |-> 0, st |-> "Finished", n |-> 0]}
    \cup {[hid |-> TRUE, echo |-> FALSE, err |-> 0, st |-> "Finished", n |-> 0]}
    \cup {[hid |-> TRUE, echo |-> TRUE, err |-> b, st |-> "Finished", n |-> 0] :
             b \in ErrBytes \ {0}}
    \cup {[hid |-> TRUE, echo |-> TRUE, err |-> 0, st |-> "Invalid", n |-> 0]}
    \cup {[hid |-> TRUE, echo |-> TRUE, err |-> 0, st |-> s, n |-> n] :
             s \in Statuses, n \in RxLens(sent, prev)}

\* spi_transfer(payload, res): encode (payload size check), one
\* command/response exchange, decode.  k is the ordinal of the exchange among
\* the decoded ones.
spi_transfer(payload, resp, k) ==
    IF Len(payload) > ChunkMax THEN [ok |-> FALSE, err |-> ErrPayloadSize(Len(payload))]
    ELSE IF ~resp.hid THEN [ok |-> FALSE, err |-> ErrHid]
    ELSE IF ~resp.echo THEN [ok |-> FALSE, err |-> ErrCommandCode]
    ELSE IF resp.err # 0 THEN [ok |-> FALSE, err |-> ChipError(resp.err)]
    ELSE IF resp.st \notin Statuses THEN [ok |-> FALSE, err |-> ErrInvalidResponse]
    ELSE [ok |-> TRUE, status |-> resp.st, data |-> RxData(k, resp.n)]

\* ------------------------------------------------------------------- state
VARIABLES
    data,     \* the whole input slice passed to the call
    cursor,   \* bytes of the input already sliced off (`data = &data[len..]`)
    buf,      \* the caller's output accumulator
    buf0,     \* buf at call entry
    pc,       \* "first", "loop" or "done"
    result,   \* NotReturned, RetOk or RetErr(e)
    log,      \* the exchanges issued so far: [sent, r]
    tick,     \* parity of the number of exchanges issued so far
    path,     \* the bytes of the path given to open_path
    cstr,     \* path_cstr, once built
    dpc,      \* where the device is: "open_convert", "open_init", "open_device",
              \* "failed", "idle", "cmd_read" or "panicked"
    oret,     \* what open_path returned
    io,       \* the transport calls made so far: [op, arg, ret]
    cmd,      \* the command buffer of the command_response call traced last
    cret,     \* what that call returned: NotReturned, RetOk, RetErr(e), Panicked
    ncalls    \* command_response calls started

xfervars == <<data, cursor, buf, buf0, pc, result, log, tick>>
devvars == <<path, cstr, dpc, oret, io, cmd, cret, ncalls>>
vars == <<data, cursor, buf, buf0, pc, result, log, tick,
          path, cstr, dpc, oret, io, cmd, cret, ncalls>>

\* An opened device none of whose transport calls is traced.
DevOpened ==
    /\ path = <<>>
    /\ cstr = <<>>
    /\ dpc = "idle"
    /\ oret = RetOk
    /\ io = <<>>
    /\ cmd = <<>>
    /\ cret = NotReturned
    /\ ncalls = 0

Init ==
    /\ data \in {InputOf(n) : n \in DataLens}
    /\ cursor = 0
    /\ buf \in BufInits
    /\ buf0 = buf
    /\ pc = "first"
    /\ result = NotReturned
    /\ log = <<>>
    /\ tick = 0
    /\ DevOpened

\* Variant of ChunkLen without the 60-byte ceiling.
ChunkLenUncapped(remaining) == remaining

\* let len = min(data.len(), 60)
ChunkLen(remaining) == Min(remaining, ChunkMax)

\* &data[..len] of the remaining input
Chunk(d, c) == SubSeq(d, c + 1, c + ChunkLen(Len(d) - c))

\* The exchanges of the log that decoded successfully.
Decoded(l) == SelectSeq(l, LAMBDA e : e.r.ok)

\* Length of the chunk accepted last (0 when none was).
PrevAccepted ==
    LET acc == Decoded(log)
    IN IF acc = <<>> THEN 0 ELSE Len(acc[Len(acc)].sent)

\* Variant of FirstStep that does not look at the status of the first answer.
FirstStepNoStatusCheck(c, b, len, r) ==
    IF ~r.ok THEN [cursor |-> c, buf |-> b, pc |-> "done", result |-> RetErr(r.err)]
    ELSE [cursor |-> c + len, buf |-> b, pc |-> "loop", result |-> NotReturned]

\* Variant of FirstStep that appends the data of the first answer to buf.
FirstStepAppends(c, b, len, r) ==
    IF ~r.ok THEN [cursor |-> c, buf |-> b, pc |-> "done", result |-> RetErr(r.err)]
    ELSE IF r.status # "Started"
    THEN [cursor |-> c + len, buf |-> b, pc |-> "done",
          result |-> RetErr(ErrTransferStatus(r.status))]
    ELSE [cursor |-> c + len, buf |-> b \o r.data, pc |-> "loop", result |-> NotReturned]

\* Variant of FirstStep that retries the first exchange when the chip is busy.
FirstStepRetriesBusy(c, b, len, r) ==
    IF ~r.ok
    THEN IF r.err = ErrBusy
         THEN [cursor |-> c, buf |-> b, pc |-> "first", result |-> NotReturned]
         ELSE [cursor |-> c, buf |-> b, pc |-> "done", result |-> RetErr(r.err)]
    ELSE IF r.status # "Started"
    THEN [cursor |-> c + len, buf |-> b, pc |-> "done",
          result |-> RetErr(ErrTransferStatus(r.status))]
    ELSE [cursor |-> c + len, buf |-> b, pc |-> "loop", result |-> NotReturned]

\* The block before the loop: the result of the first exchange.
FirstStep(c, b, len, r) ==
    IF ~r.ok THEN [cursor |-> c, buf |-> b, pc |-> "done", result |-> RetErr(r.err)]
    ELSE IF r.status # "Started"
    THEN [cursor |-> c + len, buf |-> b, pc |-> "done",
          result |-> RetErr(ErrTransferStatus(r.status))]
    ELSE [cursor |-> c + len, buf |-> b, pc |-> "loop", result |-> NotReturned]

\* Variant of LoopStep that slices the input before matching on the result, so
\* that a Busy answer advances the cursor too.
LoopStepBusyAdvances(c, b, len, r) ==
    IF r.ok
    THEN IF r.status = "Finished"
         THEN [cursor |-> c + len, buf |-> b \o r.data, pc |-> "done", result |-> RetOk]
         ELSE [cursor |-> c + len, buf |-> b \o r.data, pc |-> "loop", result |-> NotReturned]
    ELSE IF r.err = ErrBusy
    THEN [cursor |-> c + len, buf |-> b, pc |-> "loop", result |-> NotReturned]
    ELSE [cursor |-> c, buf |-> b, pc |-> "done", result |-> RetErr(r.err)]

\* Variant of LoopStep that does not leave the loop on Finished.
LoopStepNoBreak(c, b, len, r) ==
    IF r.ok
    THEN [cursor |-> c + len, buf |-> b \o r.data, pc |-> "loop", result |-> NotReturned]
    ELSE IF r.err = ErrBusy
    THEN [cursor |-> c, buf |-> b, pc |-> "loop", result |-> NotReturned]
    ELSE [cursor |-> c, buf |-> b, pc |-> "done", result |-> RetErr(r.err)]

\* Variant of LoopStep that clears the accumulator when it returns an error.
LoopStepClearsOnError(c, b, len, r) ==
    IF r.ok
    THEN IF r.status = "Finished"
         THEN [cursor |-> c + len, buf |-> b \o r.data, pc |-> "done", result |-> RetOk]
         ELSE [cursor |-> c + len, buf |-> b \o r.data, pc |-> "loop", result |-> NotReturned]
    ELSE IF r.err = ErrBusy
    THEN [cursor |-> c, buf |-> b, pc |-> "loop", result |-> NotReturned]
    ELSE [cursor |-> c, buf |-> <<>>, pc |-> "done", result |-> RetErr(r.err)]

\* Variant of LoopStep that leaves the loop on Finished before slicing the input.
LoopStepFinishedKeepsCursor(c, b, len, r) ==
    IF r.ok
    THEN IF r.status = "Finished"
         THEN [cursor |-> c, buf |-> b \o r.data, pc |-> "done", result |-> RetOk]
         ELSE [cursor |-> c + len, buf |-> b \o r.data, pc |-> "loop", result |-> NotReturned]
    ELSE IF r.err = ErrBusy
    THEN [cursor |-> c, buf |-> b, pc |-> "loop", result |-> NotReturned]
    ELSE [cursor |-> c, buf |-> b, pc |-> "done", result |-> RetErr(r.err)]

\* Variant of LoopStep that also retries when the bus is unavailable.
LoopStepRetriesUnavailable(c, b, len, r) ==
    IF r.ok
    THEN IF r.status = "Finished"
         THEN [cursor |-> c + len, buf |-> b \o r.data, pc |-> "done", result |-> RetOk]
         ELSE [cursor |-> c + len, buf |-> b \o r.data, pc |-> "loop", result |-> NotReturned]
    ELSE IF r.err = ErrBusy \/ r.err = ErrChip("Unavailable")
    THEN [cursor |-> c, buf |-> b, pc |-> "loop", result |-> NotReturned]
    ELSE [cursor |-> c, buf |-> b, pc |-> "done", result |-> RetErr(r.err)]

\* Variant of LoopStep without the Busy arm: Busy is returned like any error.
LoopStepBusyFails(c, b, len, r) ==
    IF r.ok
    THEN IF r.status = "Finished"
         THEN [cursor |-> c + len, buf |-> b \o r.data, pc |-> "done", result |-> RetOk]
         ELSE [cursor |-> c + len, buf |-> b \o r.data, pc |-> "loop", result |-> NotReturned]
    ELSE [cursor |-> c, buf |-> b, pc |-> "done", result |-> RetErr(r.err)]

\* Variant of LoopStep that rejects a second Started inside the loop.
LoopStepStartedFails(c, b, len, r) ==
    IF r.ok
    THEN IF r.status = "Finished"
         THEN [cursor |-> c + len, buf |-> b \o r.data, pc |-> "done", result |-> RetOk]
         ELSE IF r.status = "Started"
         THEN [cursor |-> c + len, buf |-> b, pc |-> "done",
               result |-> RetErr(ErrTransferStatus(r.status))]
         ELSE [cursor |-> c + len, buf |-> b \o r.data, pc |-> "loop", result |-> NotReturned]
    ELSE IF r.err = ErrBusy
    THEN [cursor |-> c, buf |-> b, pc |-> "loop", result |-> NotReturned]
    ELSE [cursor |-> c, buf |-> b, pc |-> "done", result |-> RetErr(r.err)]

\* One iteration of the loop: the match on the result of the exchange.
LoopStep(c, b, len, r) ==
    IF r.ok
    THEN IF r.status = "Finished"
         THEN [cursor |-> c + len, buf |-> b \o r.data, pc |-> "done", result |-> RetOk]
         ELSE [cursor |-> c + len, buf |-> b \o r.data, pc |-> "loop", result |-> NotReturned]
    ELSE IF r.err = ErrBusy
    THEN [cursor |-> c, buf |-> b, pc |-> "loop", result |-> NotReturned]
    ELSE [cursor |-> c, buf |-> b, pc |-> "done", result |-> RetErr(r.err)]

Apply(next, payload, r) ==
    /\ cursor' = next.cursor
    /\ buf' = next.buf
    /\ pc' = next.pc
    /\ result' = next.result
    /\ log' = Append(log, [sent |-> payload, r |-> r])
    /\ tick' = 1 - tick
    /\ UNCHANGED <<data, buf0>>
    /\ UNCHANGED devvars

FirstExchange ==
    /\ pc = "first"
    /\ Len(log) < MaxExchanges
    /\ LET payload == Chunk(data, cursor)
       IN \E resp \in Responses(Len(payload), PrevAccepted) :
             LET r == spi_transfer(payload, resp, Len(Decoded(log)) + 1)
             IN Apply(FirstStep(cursor, buf, Len(payload), r), payload, r)

LoopExchange ==
    /\ pc = "loop"
    /\ Len(log) < MaxExchanges
    /\ LET payload == Chunk(data, cursor)
       IN \E resp \in Responses(Len(payload), PrevAccepted) :
             LET r == spi_transfer(payload, resp, Len(Decoded(log)) + 1)
             IN Apply(LoopStep(cursor, buf, Len(payload), r), payload, r)

Next == FirstExchange \/ LoopExchange

Spec == Init /\ [][Next]_vars

\* ------------------------------------------------- the call without a cap
\* The same call with no bound on the number of exchanges.  To keep the state
\* space finite the log records the first MaxLogged exchanges only, and past
\* them the chip returns no received data (buf stops growing); the code is
\* the same FirstStep and LoopStep.
ApplyUnlogged(next) ==
    /\ cursor' = next.cursor
    /\ buf' = next.buf
    /\ pc' = next.pc
    /\ result' = next.result
    /\ tick' = 1 - tick
    /\ UNCHANGED <<data, buf0, log>>
    /\ UNCHANGED devvars

\* Answers that end the loop: Finished, or an error other than Busy.
EndsLoop(r) == IF r.ok THEN r.status = "Finished" ELSE r.err # ErrBusy

\* The decoded answer of the exchange issued in the current state.
Answer(resp) == spi_transfer(Chunk(data, cursor), resp, Len(Decoded(log)) + 1)

\* One iteration of the loop on the transport's answer resp.
LoopLive(resp) ==
    LET payload == Chunk(data, cursor)
        r == Answer(resp)
        next == LoopStep(cursor, buf, Len(payload), r)
    IN IF Len(log) < MaxLogged
       THEN Apply(next, payload, r)
       ELSE resp.n = 0 /\ ApplyUnlogged(next)

FirstLive ==
    /\ pc = "first"
    /\ FirstExchange

\* An iteration answered with Busy.
LoopBusy ==
    /\ pc = "loop"
    /\ \E resp \in Responses(Len(Chunk(data, cursor)), PrevAccepted) :
          /\ ~Answer(resp).ok /\ Answer(resp).err = ErrBusy
          /\ LoopLive(resp)

\* An iteration answered with a status other than Finished.
LoopContinues ==
    /\ pc = "loop"
    /\ \E resp \in Responses(Len(Chunk(data, cursor)), PrevAccepted) :
          /\ Answer(resp).ok /\ ~EndsLoop(Answer(resp))
          /\ LoopLive(resp)

\* An iteration answered with Finished or with an error other than Busy.
LoopEnds ==
    /\ pc = "loop"
    /\ \E resp \in Responses(Len(Chunk(data, cursor)), PrevAccepted) :
          /\ EndsLoop(Answer(resp))
          /\ LoopLive(resp)

NextLive == FirstLive \/ LoopBusy \/ LoopContinues \/ LoopEnds

\* The call keeps running, whatever the transport answers.
SpecRunning == Init /\ [][NextLive]_vars /\ WF_vars(NextLive)

\* The transport does not keep the loop going forever: an answer that ends the
\* loop (Finished, or an error other than Busy) eventually comes.
SpecFair == Init /\ [][NextLive]_vars /\ WF_vars(FirstLive) /\ WF_vars(LoopEnds)

\* ------------------------------------------------- open_path and the device
\* Bytes the paths tried are made of: nul, '/', and the two bytes of U+00E9,
\* which are valid UTF-8 only as the pair 195, 169.
PathBytes == {0, 47, 195, 169}

RECURSIVE PathsOfLen(_)
PathsOfLen(n) ==
    IF n = 0 THEN {<<>>}
    ELSE {Append(p, b) : p \in PathsOfLen(n - 1), b \in PathBytes}

Paths == UNION {PathsOfLen(n) : n \in 0..MaxPathLen}

\* A UTF-8 continuation byte.
IsCont(b) == b \in 128..191

RECURSIVE ValidUtf8(_)
\* Whether the bytes are well-formed UTF-8, as Path::to_str decides it.
ValidUtf8(s) ==
    IF s = <<>> THEN TRUE
    ELSE LET b == s[1]
             n == Len(s)
         IN IF b < 128 THEN ValidUtf8(Tail(s))
            ELSE IF b \in 194..223
            THEN n >= 2 /\ IsCont(s[2]) /\ ValidUtf8(SubSeq(s, 3, n))
            ELSE IF b \in 224..239
            THEN /\ n >= 3
                 /\ s[2] \in (IF b = 224 THEN 160..191 ELSE IF b = 237 THEN 128..159 ELSE 128..191)
                 /\ IsCont(s[3])
                 /\ ValidUtf8(SubSeq(s, 4, n))
            ELSE IF b \in 240..244
            THEN /\ n >= 4
                 /\ s[2] \in (IF b = 240 THEN 144..191 ELSE IF b = 244 THEN 128..143 ELSE 128..191)
                 /\ IsCont(s[3]) /\ IsCont(s[4])
                 /\ ValidUtf8(SubSeq(s, 5, n))
            ELSE FALSE

\* Position of the first nul byte of s, 0 when it has none.
FirstNul(s) ==
    IF \E i \in 1..Len(s) : s[i] = 0
    THEN CHOOSE i \in 1..Len(s) : s[i] = 0 /\ \A j \in 1..(i - 1) : s[j] # 0
    ELSE 0

\* Variant of PathToCString that looks for a nul byte before decoding.
PathToCStringNulFirst(p) ==
    IF FirstNul(p) # 0 THEN [ok |-> FALSE, err |-> ErrNulCharInPath(FirstNul(p) - 1, p)]
    ELSE IF ~ValidUtf8(p) THEN [ok |-> FALSE, err |-> ErrNonUtf8Path(p)]
    ELSE [ok |-> TRUE, cstr |-> p \o <<0>>]

\* CString::new(path.to_str().ok_or_else(NonUtf8Path)?).map_err(NulCharInPath)?
PathToCString(p) ==
    IF ~ValidUtf8(p) THEN [ok |-> FALSE, err |-> ErrNonUtf8Path(p)]
    ELSE IF FirstNul(p) # 0 THEN [ok |-> FALSE, err |-> ErrNulCharInPath(FirstNul(p) - 1, p)]
    ELSE [ok |-> TRUE, cstr |-> p \o <<0>>]

\* The call panicked (a failed assert_eq!): it returned nothing.
Panicked == [tag |-> "panic"]

\* What a transport call returns: an error, or Ok(n).
IoErr == [ok |-> FALSE, n |-> 0]
IoOk(n) == [ok |-> TRUE, n |-> n]

\* Byte counts HidDevice::write and HidDevice::read may report.
WriteCounts == {0, BUFFER_SIZE, BUFFER_SIZE + 1}
ReadCounts == {0, BUFFER_SIZE - 1, BUFFER_SIZE}

\* Command buffers tried: all zero, and a buffer of distinct bytes.
Cmds == {[i \in 1..BUFFER_SIZE |-> 0], [i \in 1..BUFFER_SIZE |-> 65 + i]}

\* let data_to_write = &[[0x00].to_vec(), cmd.to_vec()].concat()
DataToWrite(c) == <<0>> \o c

\* Variant of AfterWrite without the assert on the count written.
AfterWriteNoAssert(w, len) ==
    IF ~w.ok THEN [dpc |-> "idle", cret |-> RetErr(ErrHid)]
    ELSE [dpc |-> "cmd_read", cret |-> NotReturned]

\* assert_eq!(self.device.write(data_to_write)?, data_to_write.len())
AfterWrite(w, len) ==
    IF ~w.ok THEN [dpc |-> "idle", cret |-> RetErr(ErrHid)]
    ELSE IF w.n # len THEN [dpc |-> "panicked", cret |-> Panicked]
    ELSE [dpc |-> "cmd_read", cret |-> NotReturned]

\* assert_eq!(self.device.read(res)?, BUFFER_SIZE); Ok(())
AfterRead(r) ==
    IF ~r.ok THEN [dpc |-> "idle", cret |-> RetErr(ErrHid)]
    ELSE IF r.n # BUFFER_SIZE THEN [dpc |-> "panicked", cret |-> Panicked]
    ELSE [dpc |-> "idle", cret |-> RetOk]

InitDev ==
    /\ data = <<>> /\ cursor = 0 /\ buf = <<>> /\ buf0 = <<>>
    /\ pc = "first" /\ result = NotReturned /\ log = <<>> /\ tick = 0
    /\ path \in Paths
    /\ cstr = <<>>
    /\ dpc = "open_convert"
    /\ oret = NotReturned
    /\ io = <<>>
    /\ cmd = <<>>
    /\ cret = NotReturned
    /\ ncalls = 0

\* open_path: the path to a CString.
OpenConvert ==
    /\ dpc = "open_convert"
    /\ LET c == PathToCString(path)
       IN IF c.ok
          THEN cstr' = c.cstr /\ dpc' = "open_init" /\ oret' = oret
          ELSE cstr' = cstr /\ dpc' = "failed" /\ oret' = RetErr(c.err)
    /\ UNCHANGED <<path, io, cmd, cret, ncalls>>
    /\ UNCHANGED xfervars

\* open_path: HidApi::new().map_err(Mcp2210Error::Hid)?
OpenInit ==
    /\ dpc = "open_init"
    /\ \E ok \in BOOLEAN :
          /\ io' = Append(io, [op |-> "HidApi::new", arg |-> <<>>,
                               ret |-> IF ok THEN IoOk(0) ELSE IoErr])
          /\ IF ok THEN dpc' = "open_device" /\ oret' = oret
                   ELSE dpc' = "failed" /\ oret' = RetErr(ErrHid)
    /\ UNCHANGED <<path, cstr, cmd, cret, ncalls>>
    /\ UNCHANGED xfervars

\* open_path: context.open_path(&path_cstr).map_err(Mcp2210Error::Hid)?
OpenDevice ==
    /\ dpc = "open_device"
    /\ \E ok \in BOOLEAN :
          /\ io' = Append(io, [op |-> "open_path", arg |-> cstr,
                               ret |-> IF ok THEN IoOk(0) ELSE IoErr])
          /\ IF ok THEN dpc' = "idle" /\ oret' = RetOk
                   ELSE dpc' = "failed" /\ oret' = RetErr(ErrHid)
    /\ UNCHANGED <<path, cstr, cmd, cret, ncalls>>
    /\ UNCHANGED xfervars

\* command_response, up to the return of the write.
CmdWrite ==
    /\ dpc = "idle"
    /\ ncalls < MaxCalls
    /\ \E c \in Cmds, w \in {IoErr} \cup {IoOk(n) : n \in WriteCounts} :
          LET next == AfterWrite(w, Len(DataToWrite(c)))
          IN /\ cmd' = c
             /\ io' = Append(io, [op |-> "write", arg |-> DataToWrite(c), ret |-> w])
             /\ dpc' = next.dpc
             /\ cret' = next.cret
    /\ ncalls' = ncalls + 1
    /\ UNCHANGED <<path, cstr, oret>>
    /\ UNCHANGED xfervars

\* command_response, from the read to the return.
CmdRead ==
    /\ dpc = "cmd_read"
    /\ \E r \in {IoErr} \cup {IoOk(n) : n \in ReadCounts} :
          LET next == AfterRead(r)
          IN /\ io' = Append(io, [op |-> "read", arg |-> <<>>, ret |-> r])
             /\ dpc' = next.dpc
             /\ cret' = next.cret
    /\ UNCHANGED <<path, cstr, oret, cmd, ncalls>>
    /\ UNCHANGED xfervars

NextDev == OpenConvert \/ OpenInit \/ OpenDevice \/ CmdWrite \/ CmdRead

SpecDev == InitDev /\ [][NextDev]_vars

TypeOK ==
    /\ cursor \in 0..Len(data)
    /\ pc \in {"first", "loop", "done"}
    /\ (pc = "done") = (result # NotReturned)

\* ---------------------------------------------------- reading the exchanges
RECURSIVE Concat(_)
\* The concatenation of a sequence of byte sequences, in order.
Concat(ss) == IF ss = <<>> THEN <<>> ELSE Head(ss) \o Concat(Tail(ss))

IsBusy(e) == ~e.r.ok /\ e.r.err = ErrBusy

\* The exchange surfaced an error of the transport or the chip other than Busy.
IsFailure(e) == ~e.r.ok /\ e.r.err # ErrBusy

\* Payloads of the exchanges that were not answered with Busy, in order.
NonBusyPayloads(l) == [i \in 1..Len(SelectSeq(l, LAMBDA e : ~IsBusy(e))) |->
                          SelectSeq(l, LAMBDA e : ~IsBusy(e))[i].sent]

\* Received data of the decoded exchanges of l, in order.
RxOf(l) == [i \in 1..Len(Decoded(l)) |-> Decoded(l)[i].r.data]

Last(l) == l[Len(l)]

Returned == pc = "done"

\* --------------------------------------------------------------------- C1
\* C1: if the first exchange decodes successfully with a status s other than
\* Started, the call has returned Err(TransferStatus(s)) with exactly that s,
\* exactly one exchange was issued and buf is as it was at call entry.
C1_FirstNotStarted ==
    (Len(log) >= 1 /\ log[1].r.ok /\ log[1].r.status # "Started") =>
        /\ Returned
        /\ result = RetErr(ErrTransferStatus(log[1].r.status))
        /\ Len(log) = 1
        /\ buf = buf0

C1_Witness ==
    /\ Len(log) = 1 /\ log[1].r.ok /\ log[1].r.status = "InProgress"
    /\ Len(log[1].r.data) > 0
    /\ buf0 # <<>>
    /\ Returned

\* --------------------------------------------------------------------- C2
\* C2: an exchange after the first that fails with Busy leaves the call in the
\* loop with the cursor and buf as they were and returns nothing, and the
\* exchange issued next carries the very same chunk.
C2_BusyStep ==
    (pc = "loop" /\ IsBusy(Last(log')) /\ Len(log') = Len(log) + 1) =>
        /\ cursor' = cursor
        /\ buf' = buf
        /\ pc' = "loop"
        /\ result' = NotReturned

C2_BusyResend ==
    []( \A i \in 2..Len(log) : IsBusy(log[i]) =>
           /\ i < Len(log) => log[i + 1].sent = log[i].sent
           /\ i = Len(log) => ~Returned /\ Chunk(data, cursor) = log[i].sent )
    /\ [][C2_BusyStep]_vars

C2_Witness ==
    /\ Len(log) >= 4
    /\ IsBusy(log[3]) /\ log[4].r.ok
    /\ Len(log[3].sent) \in 1..(ChunkMax - 1)
    /\ log[4].sent = log[3].sent
    /\ log[3].sent # log[2].sent

\* --------------------------------------------------------------------- C3
\* C3: Ok is returned only when the last exchange issued came after the first
\* and decoded with Finished; and no exchange follows a Finished of the loop
\* or an exchange whose error was surfaced (a failed or not-Started first
\* exchange, a non-Busy error in the loop).
C3_Terminal ==
    /\ result = RetOk =>
          Len(log) >= 2 /\ Last(log).r.ok /\ Last(log).r.status = "Finished"
    /\ \A i \in 1..(Len(log) - 1) :
          /\ ~IsFailure(log[i])
          /\ i = 1 => log[i].r.ok /\ log[i].r.status = "Started"
          /\ i >= 2 => ~(log[i].r.ok /\ log[i].r.status = "Finished")
    /\ Returned => ~ENABLED Next

C3_Witness ==
    /\ result = RetOk
    /\ Len(log) >= 4
    /\ \E i \in 2..(Len(log) - 1) : IsBusy(log[i])
    /\ \E i \in 2..(Len(log) - 1) : log[i].r.ok /\ log[i].r.status = "Started"

\* --------------------------------------------------------------------- C4
\* C4: every exchange carries exactly min(remaining input, 60) bytes, where
\* the remaining input is what the earlier exchanges not answered with Busy
\* left; the call never fails with PayloadSize; the payloads of the exchanges
\* not answered with Busy concatenate to a prefix of data; and a 61-byte input
\* goes out as 60 bytes, then 1 byte (then empty payloads).
C4_Chunking ==
    /\ \A i \in 1..Len(log) :
          LET before == Len(Concat(NonBusyPayloads(SubSeq(log, 1, i - 1))))
          IN /\ Len(log[i].sent) = Min(Len(data) - before, 60)
             /\ Len(log[i].sent) <= 60
             /\ log[i].sent = SubSeq(data, before + 1, before + Len(log[i].sent))
    /\ ~(result.tag = "Err" /\ result.err.kind = "PayloadSize")
    /\ LET sent == Concat(NonBusyPayloads(log))
       IN Len(sent) <= Len(data) /\ sent = SubSeq(data, 1, Len(sent))
    /\ Len(data) = 61 =>
          \A i \in 1..Len(NonBusyPayloads(log)) :
             Len(NonBusyPayloads(log)[i]) = (IF i = 1 THEN 60 ELSE IF i = 2 THEN 1 ELSE 0)

C4_Witness ==
    /\ Len(data) = 61
    /\ Len(log) >= 4
    /\ IsBusy(log[2])
    /\ Len(NonBusyPayloads(log)) = 3
    /\ Concat(NonBusyPayloads(log)) = data

\* --------------------------------------------------------------------- C5
\* C5: in every state of a call, returned or not, buf is its content at call
\* entry followed by the received data of the decoded exchanges after the
\* first, in exchange order.
C5_BufAppendOnly ==
    buf = buf0 \o Concat(RxOf(SubSeq(log, 2, Len(log))))

C5_Witness ==
    /\ Returned /\ result.tag = "Err" /\ Len(log) >= 3
    /\ buf0 # <<>>
    /\ Len(buf) > Len(buf0)
    /\ Len(log[1].r.data) > 0

\* --------------------------------------------------------------------- C6
\* The bytes the call has appended to buf.
Appended == SubSeq(buf, Len(buf0) + 1, Len(buf))

\* C6 as stated: at an Ok return the appended bytes are the concatenation of
\* the data returned in all exchanges of the call, the first included.
C6_AllExchanges ==
    result = RetOk => Appended = Concat(RxOf(log))

\* C6 amended: at an Ok return the appended bytes are the concatenation of the
\* data returned in the exchanges after the first; the data of the first
\* answer is dropped, so this is the concatenation over all exchanges exactly
\* when the first answer carried no data.
C6_LoopExchanges ==
    result = RetOk =>
        /\ Len(buf) >= Len(buf0) /\ SubSeq(buf, 1, Len(buf0)) = buf0
        /\ Appended = Concat(RxOf(Tail(log)))
        /\ (Appended = Concat(RxOf(log))) <=> (log[1].r.data = <<>>)

C6_Witness ==
    /\ result = RetOk
    /\ Len(log[1].r.data) > 0
    /\ Len(Appended) > ChunkMax
    /\ \E i \in 2..Len(log) : IsBusy(log[i])

\* --------------------------------------------------------------------- C7
\* Payloads of the decoded (accepted) exchanges, in order.
AcceptedPayloads(l) == [i \in 1..Len(Decoded(l)) |-> Decoded(l)[i].sent]

\* C7 as stated: at an Ok return the accepted chunks concatenate to all of
\* data and the cursor is at the end of data.
C7_WholeInput ==
    result = RetOk =>
        cursor = Len(data) /\ Concat(AcceptedPayloads(log)) = data

\* C7 amended: at an Ok return the accepted chunks concatenate to the first
\* `cursor` bytes of data; the cursor is at the end of data unless Finished
\* was reported while input was unsent, and then every accepted chunk was a
\* full 60-byte chunk and the rest of the input was never sent.
C7_AcceptedPrefix ==
    result = RetOk =>
        /\ cursor <= Len(data)
        /\ Concat(AcceptedPayloads(log)) = SubSeq(data, 1, cursor)
        /\ cursor < Len(data) =>
              /\ cursor = 60 * Len(Decoded(log))
              /\ \A i \in 1..Len(log) : Len(log[i].sent) = 60

C7_Witness ==
    /\ result = RetOk
    /\ cursor = 2 * ChunkMax
    /\ Len(data) > cursor
    /\ \E i \in 2..Len(log) : IsBusy(log[i])

\* --------------------------------------------------------------------- C8
\* C8 as stated: an exchange after the first whose outcome is an error other
\* than Busy makes the call fail with a TransferStatus error.
C8_FailsWithTransferStatus ==
    \A i \in 2..Len(log) : IsFailure(log[i]) =>
        result.tag = "Err" /\ result.err.kind = "TransferStatus"

\* C8 amended: an exchange after the first whose outcome is an error other
\* than Busy makes the call fail at once with that same error, unchanged; a
\* TransferStatus error comes from the first exchange only.
C8_FailsWithSameError ==
    /\ \A i \in 2..Len(log) : IsFailure(log[i]) =>
          i = Len(log) /\ Returned /\ result = RetErr(log[i].r.err)
    /\ (result.tag = "Err" /\ result.err.kind = "TransferStatus") => Len(log) = 1

C8_Witness ==
    /\ Len(log) >= 3
    /\ IsFailure(Last(log))
    /\ Last(log).r.err = ErrChip("Unavailable")
    /\ Len(buf) > Len(buf0)

\* --------------------------------------------------------------------- C9
\* The exchanges of l that were not answered with Busy.
NonBusy(l) == SelectSeq(l, LAMBDA e : ~IsBusy(e))

RECURSIVE RunFrom(_, _)
\* The call run from st on the answers `answers`, one exchange per answer.
RunFrom(st, answers) ==
    IF answers = <<>> \/ st.pc = "done" THEN st
    ELSE LET payload == Chunk(data, st.cursor)
             next == IF st.pc = "first"
                     THEN FirstStep(st.cursor, st.buf, Len(payload), Head(answers))
                     ELSE LoopStep(st.cursor, st.buf, Len(payload), Head(answers))
         IN RunFrom([cursor |-> next.cursor, buf |-> next.buf, pc |-> next.pc,
                     result |-> next.result, sent |-> Append(st.sent, payload)],
                    Tail(answers))

\* The run of the call on the same input whose transport gives the answers of
\* the log with the Busy answers left out.
BusyFreeRun ==
    RunFrom([cursor |-> 0, buf |-> buf0, pc |-> "first", result |-> NotReturned,
             sent |-> <<>>],
            [i \in 1..Len(NonBusy(log)) |-> NonBusy(log)[i].r])

\* The answers of the busy-free transfer of 150 bytes: Started, then the
\* received data one exchange behind the data sent.
IsPlan150(l) ==
    /\ Len(l) = 4
    /\ \A i \in 1..4 : l[i].r.ok
    /\ l[1].r.status = "Started" /\ Len(l[1].r.data) = 0
    /\ l[2].r.status = "InProgress" /\ Len(l[2].r.data) = 60
    /\ l[3].r.status = "InProgress" /\ Len(l[3].r.data) = 60
    /\ l[4].r.status = "Finished" /\ Len(l[4].r.data) = 30

\* C9: for a transfer whose first exchange reports Started, the run with k
\* Busy answers after the first exchange issues exactly k exchanges more than
\* the run on the same answers without them, and agrees with it in everything
\* else: payloads accepted, cursor, buf, and the return value (Ok after a
\* Finished when that run ends Ok).  Instance: 150 bytes with the 3rd packet
\* answered Busy once takes 5 exchanges, the 4th resending the 30-byte chunk,
\* appends 150 bytes and ends Ok on Finished.
C9_BusyCostsOneExchange ==
    /\ (Len(log) >= 1 /\ log[1].r.ok /\ log[1].r.status = "Started") =>
          LET k == Cardinality({i \in 2..Len(log) : IsBusy(log[i])})
              free == BusyFreeRun
          IN /\ Len(log) = Len(free.sent) + k
             /\ free.sent = NonBusyPayloads(log)
             /\ free.cursor = cursor
             /\ free.buf = buf
             /\ free.pc = pc
             /\ free.result = result
             /\ result = RetOk => Last(log).r.ok /\ Last(log).r.status = "Finished"
    /\ (/\ Len(data) = 150
        /\ {i \in 1..Len(log) : IsBusy(log[i])} = {3}
        /\ IsPlan150(NonBusy(log))) =>
          /\ Len(log) = 5
          /\ Len(log[1].sent) = 60 /\ Len(log[2].sent) = 60
          /\ Len(log[3].sent) = 30 /\ log[4].sent = log[3].sent
          /\ Len(log[5].sent) = 0
          /\ Len(buf) = Len(buf0) + 150
          /\ result = RetOk
          /\ log[5].r.status = "Finished"

C9_Witness ==
    /\ Len(data) = 150
    /\ {i \in 1..Len(log) : IsBusy(log[i])} = {3}
    /\ IsPlan150(NonBusy(log))
    /\ result = RetOk

\* -------------------------------------------------------------------- C10
\* C10: the loop has no retry cap: in every state of the loop, however many
\* Busy answers came before, one more Busy answer is retried and leaves the
\* call in the loop; and when the transport eventually gives an answer that
\* ends the loop, every call eventually returns.
C10_ReturnsUnderFairness ==
    /\ <>Returned
    /\ [](pc = "loop" => ENABLED <<LoopBusy /\ pc' = "loop">>_vars)

\* A call that has issued more exchanges than the log records, with Busy among
\* them, and has returned.
C10_Witness ==
    /\ Returned
    /\ Len(log) = MaxLogged
    /\ tick # Len(log) % 2
    /\ IsBusy(Last(log))
    /\ result = RetOk
    /\ cursor = Len(data) /\ Len(data) > 2 * ChunkMax

\* Without the assumption on the transport the call need not return: under
\* SpecRunning this is violated by a run that answers Busy forever.
C10_ReturnsAlways == <>Returned

\* -------------------------------------------------------------------- C11
\* C11: whatever the transport's write and read produce (an error, or Ok with
\* any byte count), command_response returns a result to its caller and never
\* aborts.
C11_NeverAborts ==
    dpc # "panicked" /\ cret # Panicked

\* -------------------------------------------------------------------- C12
HasNul(p) == \E i \in 1..Len(p) : p[i] = 0

\* C12: once open_path has looked at its path, a path that is not UTF-8 has
\* made it fail with NonUtf8Path, whether or not it holds a nul byte, and a
\* UTF-8 path with a nul byte has made it fail with NulCharInPath; in both
\* cases no transport call was made (no HidApi::new, no device open).
C12_PathErrorsFirst ==
    dpc # "open_convert" =>
        /\ ~ValidUtf8(path) =>
              dpc = "failed" /\ oret = RetErr(ErrNonUtf8Path(path)) /\ io = <<>>
        /\ (ValidUtf8(path) /\ HasNul(path)) =>
              /\ dpc = "failed" /\ io = <<>>
              /\ oret.tag = "Err" /\ oret.err.kind = "NulCharInPath"
              /\ path[oret.err.pos + 1] = 0
        /\ io # <<>> => ValidUtf8(path) /\ ~HasNul(path)

C12_Witness ==
    /\ dpc = "failed"
    /\ HasNul(path)
    /\ \E i \in 1..Len(path) : path[i] = 169
    /\ io = <<>>
    /\ oret = RetErr(ErrNonUtf8Path(path))

\* -------------------------------------------------------------------- C13
\* The writes and reads on the device handle, in order.
DevIo == SelectSeq(io, LAMBDA e : e.op \in {"write", "read"})

\* C13: every write carries 65 bytes, a zero byte and then the 64 command
\* bytes unchanged; there is one write per command_response call; a read comes
\* only right after a write that reported 65 bytes, so a call makes at most
\* one read; Ok is returned only after a write reporting 65 and a read
\* reporting 64; and a write starts only when the exchange before it is over
\* (its read was made, or its write failed): exchanges never overlap.
C13_OneWriteThenOneRead ==
    LET d == DevIo
    IN /\ \A i \in 1..Len(d) :
             /\ d[i].op = "write" =>
                   /\ Len(d[i].arg) = 65
                   /\ d[i].arg[1] = 0
                   /\ SubSeq(d[i].arg, 2, 65) \in Cmds
                   /\ i = Len(d) \/ (i = Len(d) - 1 /\ d[i + 1].op = "read") =>
                         SubSeq(d[i].arg, 2, 65) = cmd
                   /\ i > 1 => \/ d[i - 1].op = "read"
                               \/ d[i - 1].op = "write" /\ ~d[i - 1].ret.ok
             /\ d[i].op = "read" =>
                   i > 1 /\ d[i - 1].op = "write" /\ d[i - 1].ret = IoOk(65)
       /\ Cardinality({i \in 1..Len(d) : d[i].op = "write"}) = ncalls
       /\ cret = RetOk =>
             /\ Len(d) >= 2
             /\ d[Len(d) - 1].op = "write" /\ d[Len(d) - 1].ret = IoOk(65)
             /\ d[Len(d)].op = "read" /\ d[Len(d)].ret = IoOk(64)
       /\ dpc = "cmd_read" => Len(d) >= 1 /\ d[Len(d)].op = "write"

C13_Witness ==
    /\ cret = RetOk
    /\ ncalls = 2
    /\ Len(DevIo) = 4
    /\ DevIo[1].arg # DevIo[3].arg
    /\ cmd[1] # 0

\* -------------------------------------------------------------------- C14
\* The answer of the chip that carries error byte b.
ErrorAnswer(b) == [hid |-> TRUE, echo |-> TRUE, err |-> b, st |-> "Finished", n |-> 0]

\* The closed set of chip error codes, with the error each one names.
ChipErrorNames ==
    {<<247, "Unavailable">>, <<248, "Busy">>, <<249, "UnknownCommandCode">>,
     <<250, "EepromWrite">>, <<251, "AccessDenied">>, <<252, "AccessRejected">>,
     <<253, "AccessDeniedRetry">>}

C15_FirstErrorReturned ==
    (Len(log) >= 1 /\ ~log[1].r.ok) =>
        /\ Returned
        /\ result = RetErr(log[1].r.err)
        /\ Len(log) = 1
        /\ cursor = 0
        /\ buf = buf0

C15_Witness ==
    /\ Len(log) = 1
    /\ log[1].r = [ok |-> FALSE, err |-> ErrBusy]
    /\ result = RetErr(ErrBusy)
    /\ Len(data) > 0
    /\ buf0 # <<>>

\* -------------------------------------------------------------------- C16
\* A loop exchange decoded with a status other than Finished.
C16_ContinueStep ==
    (/\ pc = "loop"
     /\ Len(log') = Len(log) + 1
     /\ Last(log').r.ok
     /\ Last(log').r.status # "Finished") =>
        /\ cursor' = cursor + Len(Last(log').sent)
        /\ buf' = buf \o Last(log').r.data
        /\ pc' = "loop"
        /\ result' = NotReturned

\* C16: in the loop every decoded answer whose status is not Finished, Started
\* included, advances the cursor by the chunk sent, appends its data and
\* leaves the call in the loop, where another exchange is issued; once the
\* whole input has been sent every exchange carries an empty payload; and an
\* Ok return took at least two exchanges, for the empty input too.
C16_LoopContinues ==
    /\ [][C16_ContinueStep]_vars
    /\ [](/\ \A i \in 2..Len(log) :
                (log[i].r.ok /\ log[i].r.status # "Finished" /\ i = Len(log)) =>
                    /\ ~Returned
                    /\ Len(log) < MaxExchanges => ENABLED LoopExchange
          /\ \A i \in 1..Len(log) :
                Len(Concat(NonBusyPayloads(SubSeq(log, 1, i - 1)))) = Len(data) =>
                    log[i].sent = <<>>
          /\ result = RetOk => Len(log) >= 2)

C16_Witness ==
    /\ result = RetOk
    /\ Len(data) = 61
    /\ Len(log) = 5
    /\ log[2].r.ok /\ log[2].r.status = "Started" /\ Len(log[2].r.data) > 0
    /\ log[3].r.ok /\ log[3].r.status = "InProgress"
    /\ log[4].sent = <<>> /\ log[4].r.ok
    /\ log[5].sent = <<>>

\* An Ok return on the empty input: two exchanges, both with an empty payload.
C16_EmptyInputOk ==
    result = RetOk /\ data = <<>> /\ Len(log) = 2

====
